---- MODULE Spec2Model ----
(***************************************************************************)
(* Model of src-tauri/src/lib.rs of yaks: the Tauri command surface        *)
(* (append_event, get_cas_content), the store bootstrap                    *)
(* (initialize_store), the delayed replay task (stream_existing_events)    *)
(* and the process start-up (run), all sharing one Arc<Mutex<XsStore>>.    *)
(*                                                                         *)
(* The on-disk store (frame log + CAS) outlives the process; everything    *)
(* else is per-process state and is rebuilt by Restart.                    *)
(***************************************************************************)
EXTENDS Integers, Sequences, FiniteSets, TLC

(* ------------------------------ bounds --------------------------------- *)
\* number of command invocations that may be in flight at once
NumCmds == 2
\* command invocations the front end makes against one store
MaxCalls == 2
\* process restarts against the same store directory
MaxRestarts == 1

(* ------------------------------ values --------------------------------- *)
\* Option<T>: None is the empty tuple, Some(x) a one-element tuple
None == <<>>
Some(x) == <<x>>
IsSome(o) == o # <<>>
Unwrap(o) == o[1]

Cmds == 1..NumCmds
\* holders of the store guard
NoOwner == <<>>
InitTask == <<"initialize_store">>
StreamTask == <<"stream_existing_events">>
CmdTask(c) == <<"command", c>>
\* the emitter of a live frame
AppendEvent == <<"append_event">>

SentinelTopic == "yak.create"
ZERO_CONTEXT == "ZERO_CONTEXT"

\* a meta mapping a caller may send
SomeMeta == [k \in {"note"} |-> "v"]

\* AppendRequest values the front end sends
Requests ==
    { [topic |-> "user.note",  content |-> "hello", meta |-> None],
      [topic |-> "yak.create", content |-> "bye",   meta |-> Some(SomeMeta)],
      [topic |-> "",           content |-> "",      meta |-> None] }

\* String::into_bytes: the UTF-8 encoding of a string
IntoBytes(s) == [enc |-> "utf8", text |-> s]

\* String::from_utf8: Some(text) when the bytes are valid UTF-8
FromUtf8(b) == IF b.enc = "utf8" THEN Some(b.text) ELSE None

\* the digest ssri computes over the bytes (injective on the contents used)
Digest(b) ==
    CASE b.text = "hello" -> "LPJNul+wow4m6Dsqxbning"
      [] b.text = "bye"   -> "tmqBgjComQmJxL0rmVVDSA"
      [] OTHER            -> "47DEQpj8HBSa+/TImW+5JC"

\* the ssri::Integrity that cas_insert returns for the bytes
IntegrityOf(b) == [algo |-> "sha256", digest |-> Digest(b)]

\* Integrity rendered as the string "<algo>-<digest>", kept as its two parts
IntegrityToString(i) == <<i.algo, i.digest>>

HashAlgos == {"sha1", "sha256", "sha384", "sha512"}

\* hash.parse::<ssri::Integrity>(): Some(integrity) for "<algo>-<digest>"
ParseIntegrity(s) ==
    IF Len(s) = 2 /\ s[1] \in HashAlgos
    THEN Some([algo |-> s[1], digest |-> s[2]])
    ELSE None

\* hash strings a caller may pass to get_cas_content
HashStrings ==
    { <<"not-a-hash">>,
      IntegrityToString(IntegrityOf(IntoBytes("hello"))),
      <<"sha256", "AAAAAAAAAAAAAAAAAAAAAA">> }

\* Result<String, String> of a command
OkId(n) == [ok |-> TRUE, id |-> n, text |-> ""]
OkText(s) == [ok |-> TRUE, id |-> 0, text |-> s]
Err(m) == [ok |-> FALSE, id |-> 0, text |-> m]

(* ------------------------------- state --------------------------------- *)
VARIABLES
    log,          \* the store's frame log, in append order (persistent)
    cas,          \* the store's CAS: Integrity -> bytes (persistent)
    nextId,       \* the scru128 generator: the next id it returns
    proc,         \* "running" or "exited" (std::process::exit)
    restarts,     \* restarts so far
    runBase,      \* Len(log) when this process started
    calls,        \* command invocations made so far
    sinkUp,       \* whether app.emit succeeds throughout this process run
    managed,      \* whether app_handle.manage(store) has run
    lock,         \* holder of the tokio Mutex around the store
    initPc,       \* position of initialize_store / the setup task
    has_yak,      \* initialize_store's has_yak
    appended_yak, \* initialize_store's appended_yak
    streamPc,     \* position of the spawned replay task
    rx,           \* the frames stream_existing_events' read returned
    count,        \* stream_existing_events' count
    emitted,      \* what app.emit("frame", ..) delivered, in order
    cmd,          \* per invocation slot: position, arguments, locals
    returned      \* the response the latest step delivered to the front end

vars == << log, cas, nextId, proc, restarts, runBase, calls, sinkUp, managed, lock,
           initPc, has_yak, appended_yak, streamPc, rx, count, emitted, cmd,
           returned >>

storeVars == << log, cas >>
initVars == << initPc, has_yak, appended_yak >>
streamVars == << streamPc, rx, count >>
procVars == << proc, restarts, runBase, calls, sinkUp >>
envVars == << proc, restarts, runBase, sinkUp >>

IdleCmd ==
    [pc |-> "idle", kind |-> "none", request |-> None, hash_arg |-> None,
     hash |-> None, frame_id |-> 0]

\* the response of invocation c: the command, its arguments and its Result
Response(c, result) ==
    Some([kind |-> c.kind, request |-> c.request, hash_arg |-> c.hash_arg,
          result |-> result])

\* a Frame built without its hash
FrameNoHash(id, topic, hash, meta) ==
    [id |-> id, context_id |-> ZERO_CONTEXT, topic |-> topic, hash |-> None,
     meta |-> meta, ttl |-> None]

\* Frame { id, context_id, topic, hash, meta, ttl }
Frame(id, topic, hash, meta) ==
    [id |-> id, context_id |-> ZERO_CONTEXT, topic |-> topic, hash |-> hash,
     meta |-> meta, ttl |-> None]

\* request.meta.map(|m| serde_json::Value::Object(..))
MetaValue(meta) ==
    IF IsSome(meta) THEN Some([object |-> Unwrap(meta)]) ELSE None

\* outcomes of a store call that can fail (cas_insert, append)
StoreOutcomes == {TRUE, FALSE}

\* outcomes of app.emit in this process run
EmitOutcomes == IF sinkUp THEN {TRUE} ELSE {TRUE, FALSE}

\* app.emit("frame", &frame) delivering the frame to the subscriber
Emit(frame, by) == Append(emitted, [frame |-> frame, by |-> by])

\* a generator that hands out the id before the current one again
NewIdStale(n) == IF n > 1 THEN n - 1 ELSE n

\* scru128::new(): the id the generator returns when its counter is n
NewId(n) == n

\* a read that starts after the first frame
ReadSkipsFirst(frames) == IF frames = <<>> THEN frames ELSE Tail(frames)

\* store.read(ReadOptions follow Off): the frames of the log, in log order
ReadSnapshot(frames) == frames

\* a cas_insert that returns the hash without storing the entry
CasInsertDropped(store, bytes) == store

\* store.cas_insert(bytes): idempotent insert keyed by the integrity hash
CasInsert(store, bytes) ==
    IF IntegrityOf(bytes) \in DOMAIN store
    THEN store
    ELSE store @@ (IntegrityOf(bytes) :> bytes)

\* store.cas_read(&integrity): Some(bytes) when the entry exists
CasRead(store, integrity) ==
    IF integrity \in DOMAIN store THEN Some(store[integrity]) ELSE None

Init ==
    /\ log = <<>>
    /\ cas = <<>>
    /\ nextId = 1
    /\ proc = "running"
    /\ restarts = 0
    /\ runBase = 0
    /\ calls = 0
    /\ sinkUp \in BOOLEAN
    /\ managed = FALSE
    /\ lock = NoOwner
    /\ initPc = "lock"
    /\ has_yak = FALSE
    /\ appended_yak = None
    /\ streamPc = "unspawned"
    /\ rx = <<>>
    /\ count = 0
    /\ emitted = <<>>
    /\ cmd = [c \in Cmds |-> IdleCmd]
    /\ returned = None


Running == proc = "running"

\* a lock that never waits
MutexIgnored == TRUE

\* Mutex::lock().await proceeds only when no task holds the guard
MutexFree == lock = NoOwner

(* ------------------- initialize_store and run's setup task ------------- *)
\* a scan that compares against the wrong topic and so never finds the yak
ScanNeverFinds(frames) ==
    \E i \in 1..Len(frames) : frames[i].topic = "yak.created"

\* the sentinel scan of initialize_store: whether any frame has the topic
ScanHasYak(frames) == \E i \in 1..Len(frames) : frames[i].topic = SentinelTopic

\* let store_lock = store.lock().await
InitLock ==
    /\ Running /\ initPc = "lock" /\ MutexFree
    /\ lock' = InitTask
    /\ initPc' = "scan"
    /\ UNCHANGED << storeVars, nextId, procVars, managed, has_yak,
                    appended_yak, streamVars, emitted, cmd >>
    /\ returned' = None

\* the read with FollowOption::Off and the while-let loop looking for yak.create
InitScan ==
    /\ Running /\ initPc = "scan"
    /\ has_yak' = ScanHasYak(ReadSnapshot(log))
    /\ initPc' = IF ScanHasYak(ReadSnapshot(log)) THEN "drop" ELSE "append"
    /\ UNCHANGED << storeVars, nextId, procVars, managed, lock, appended_yak,
                    streamVars, emitted, cmd >>
    /\ returned' = None

\* an append whose failure is only logged, so that initialize_store goes on
InitAppendIgnoresFailure ==
    /\ Running /\ initPc = "append"
    /\ nextId' = nextId + 1
    /\ \E ok \in StoreOutcomes :
         IF ok
         THEN /\ log' = Append(log, Frame(NewId(nextId), SentinelTopic, None, None))
              /\ appended_yak' =
                   Some(Frame(NewId(nextId), SentinelTopic, None, None))
              /\ initPc' = "emit"
              /\ lock' = lock
         ELSE /\ log' = log
              /\ appended_yak' = appended_yak
              /\ initPc' = "drop"
              /\ lock' = lock
    /\ UNCHANGED << cas, procVars, managed, has_yak, streamVars, emitted, cmd >>
    /\ returned' = None

\* if !has_yak: build the yak frame with a fresh id and append it; a failed
\* append returns Err from initialize_store (the guard is dropped on return)
InitAppend ==
    /\ Running /\ initPc = "append"
    /\ nextId' = nextId + 1
    /\ \E ok \in StoreOutcomes :
         IF ok
         THEN /\ log' = Append(log, Frame(NewId(nextId), SentinelTopic, None, None))
              /\ appended_yak' =
                   Some(Frame(NewId(nextId), SentinelTopic, None, None))
              /\ initPc' = "emit"
              /\ lock' = lock
         ELSE /\ log' = log
              /\ appended_yak' = appended_yak
              /\ initPc' = "failed"
              /\ lock' = NoOwner
    /\ UNCHANGED << cas, procVars, managed, has_yak, streamVars, emitted, cmd >>
    /\ returned' = None

\* an emit of the yak frame whose failure returns Err from initialize_store
InitEmitFatal ==
    /\ Running /\ initPc = "emit"
    /\ \E ok \in EmitOutcomes :
         IF ok
         THEN /\ emitted' = Emit(Unwrap(appended_yak), InitTask)
              /\ initPc' = "drop"
              /\ lock' = lock
         ELSE /\ emitted' = emitted
              /\ initPc' = "failed"
              /\ lock' = NoOwner
    /\ UNCHANGED << storeVars, nextId, procVars, managed, has_yak,
                    appended_yak, streamVars, cmd >>
    /\ returned' = None

\* app.emit("frame", &appended_yak).unwrap_or_else(..): a failure is only logged
InitEmit ==
    /\ Running /\ initPc = "emit"
    /\ \E ok \in EmitOutcomes :
         emitted' = IF ok THEN Emit(Unwrap(appended_yak), InitTask) ELSE emitted
    /\ initPc' = "drop"
    /\ UNCHANGED << storeVars, nextId, procVars, managed, lock, has_yak,
                    appended_yak, streamVars, cmd >>
    /\ returned' = None

\* drop(store_lock)
InitDrop ==
    /\ Running /\ initPc = "drop"
    /\ lock' = NoOwner
    /\ initPc' = "spawn"
    /\ UNCHANGED << storeVars, nextId, procVars, managed, has_yak,
                    appended_yak, streamVars, emitted, cmd >>
    /\ returned' = None

\* tokio::spawn of the replay task, which first sleeps; then Ok(store)
InitSpawn ==
    /\ Running /\ initPc = "spawn"
    /\ streamPc' = "sleep"
    /\ initPc' = "returned"
    /\ UNCHANGED << storeVars, nextId, procVars, managed, lock, has_yak,
                    appended_yak, rx, count, emitted, cmd >>
    /\ returned' = None

\* run: Ok(store) => app_handle.manage(store)
RunManage ==
    /\ Running /\ initPc = "returned"
    /\ managed' = TRUE
    /\ initPc' = "done"
    /\ UNCHANGED << storeVars, nextId, procVars, lock, has_yak, appended_yak,
                    streamVars, emitted, cmd >>
    /\ returned' = None

\* run: Err(e) => std::process::exit(1)
RunExit ==
    /\ Running /\ initPc = "failed"
    /\ proc' = "exited"
    /\ UNCHANGED << storeVars, nextId, restarts, runBase, calls, sinkUp, managed, lock,
                    initVars, streamVars, emitted, cmd >>
    /\ returned' = None

(* ------------------------ stream_existing_events ----------------------- *)
\* tokio::time::sleep(500ms) elapses
StreamWake ==
    /\ Running /\ streamPc = "sleep"
    /\ streamPc' = "lock"
    /\ UNCHANGED << storeVars, nextId, procVars, managed, lock, initVars, rx,
                    count, emitted, cmd >>
    /\ returned' = None

\* let store = store.lock().await
StreamLock ==
    /\ Running /\ streamPc = "lock" /\ MutexFree
    /\ lock' = StreamTask
    /\ streamPc' = "read"
    /\ UNCHANGED << storeVars, nextId, procVars, managed, initVars, rx, count,
                    emitted, cmd >>
    /\ returned' = None

\* store.read(FollowOption::Off): the frames of the log at this moment
StreamRead ==
    /\ Running /\ streamPc = "read"
    /\ rx' = ReadSnapshot(log)
    /\ count' = 0
    /\ streamPc' = "recv"
    /\ UNCHANGED << storeVars, nextId, procVars, managed, lock, initVars,
                    emitted, cmd >>
    /\ returned' = None

\* a loop that only logs a failed emit and goes on with the next frame
StreamEmitContinues ==
    /\ Running /\ streamPc = "recv" /\ count < Len(rx)
    /\ count' = count + 1
    /\ \E ok \in EmitOutcomes :
         emitted' = IF ok THEN Emit(rx[count + 1], StreamTask) ELSE emitted
    /\ streamPc' = "recv"
    /\ lock' = lock
    /\ UNCHANGED << storeVars, nextId, procVars, managed, initVars, rx, cmd >>
    /\ returned' = None

\* one turn of the while-let loop: count += 1; app.emit("frame", &frame)?
StreamEmit ==
    /\ Running /\ streamPc = "recv" /\ count < Len(rx)
    /\ count' = count + 1
    /\ \E ok \in EmitOutcomes :
         IF ok
         THEN /\ emitted' = Emit(rx[count + 1], StreamTask)
              /\ streamPc' = "recv"
              /\ lock' = lock
         ELSE /\ emitted' = emitted
              /\ streamPc' = "failed"
              /\ lock' = NoOwner
    /\ UNCHANGED << storeVars, nextId, procVars, managed, initVars, rx, cmd >>
    /\ returned' = None

\* a replay task that, once through, sleeps and replays again
StreamFinishRepeats ==
    /\ Running /\ streamPc = "recv" /\ count = Len(rx)
    /\ streamPc' = "sleep"
    /\ lock' = NoOwner
    /\ UNCHANGED << storeVars, nextId, procVars, managed, initVars, rx, count,
                    emitted, cmd >>
    /\ returned' = None

\* rx.recv() returns None: Ok(()) and the guard is dropped
StreamFinish ==
    /\ Running /\ streamPc = "recv" /\ count = Len(rx)
    /\ streamPc' = "done"
    /\ lock' = NoOwner
    /\ UNCHANGED << storeVars, nextId, procVars, managed, initVars, rx, count,
                    emitted, cmd >>
    /\ returned' = None


(* ------------------------------ commands ------------------------------- *)
\* a store managed when the builder runs, before the bootstrap
StateAlwaysResolves == TRUE

\* State<'_, Store> resolves only once run has managed the store
StateManaged == managed

\* a slot with no invocation in progress
Free(c) == cmd[c].pc = "idle"

\* the slot a new invocation occupies: the lowest free one, while the front end
\* has invocations left
CanInvoke(c) ==
    /\ Running /\ Free(c)
    /\ \A d \in Cmds : d < c => ~Free(d)
    /\ calls < MaxCalls

\* the front end invokes append_event; State<'_, Store> resolves only once the
\* store is managed, otherwise the invocation is rejected before the body runs
AppendInvoke(c, request) ==
    /\ CanInvoke(c)
    /\ calls' = calls + 1
    /\ LET call == [IdleCmd EXCEPT !.kind = "append_event",
                                   !.request = Some(request)]
       IN IF StateManaged
          THEN /\ cmd' = [cmd EXCEPT ![c] = [call EXCEPT !.pc = "lock"]]
               /\ returned' = None
          ELSE /\ cmd' = cmd
               /\ returned' = Response(call, Err("state not managed"))
    /\ UNCHANGED << storeVars, nextId, envVars, managed, lock, initVars,
                    streamVars, emitted >>

\* the front end invokes get_cas_content
GetInvoke(c, hash) ==
    /\ CanInvoke(c)
    /\ calls' = calls + 1
    /\ LET call == [IdleCmd EXCEPT !.kind = "get_cas_content",
                                   !.hash_arg = Some(hash)]
       IN IF StateManaged
          THEN /\ cmd' = [cmd EXCEPT ![c] = [call EXCEPT !.pc = "lock"]]
               /\ returned' = None
          ELSE /\ cmd' = cmd
               /\ returned' = Response(call, Err("state not managed"))
    /\ UNCHANGED << storeVars, nextId, envVars, managed, lock, initVars,
                    streamVars, emitted >>

\* let store = store.lock().await, in either command
CmdLock(c) ==
    /\ Running /\ cmd[c].pc = "lock" /\ MutexFree
    /\ lock' = CmdTask(c)
    /\ cmd' = [cmd EXCEPT ![c].pc =
                 IF cmd[c].kind = "append_event" THEN "cas" ELSE "read"]
    /\ UNCHANGED << storeVars, nextId, procVars, managed, initVars, streamVars,
                    emitted >>
    /\ returned' = None

\* a cas_insert whose error path returns with the guard still held
AppendCasInsertKeepsGuard(c) ==
    /\ Running /\ cmd[c].pc = "cas"
    /\ LET content == Unwrap(cmd[c].request).content
           bytes == IntoBytes(content)
       IN IF content # ""
          THEN \E ok \in StoreOutcomes :
                 IF ok
                 THEN /\ cas' = CasInsert(cas, bytes)
                      /\ cmd' = [cmd EXCEPT ![c].hash = Some(IntegrityOf(bytes)),
                                            ![c].pc = "append"]
                      /\ lock' = lock /\ returned' = None
                 ELSE /\ cas' = cas
                      /\ cmd' = [cmd EXCEPT ![c] = IdleCmd]
                      /\ returned' = Response(cmd[c], Err("Failed to insert content"))
                      /\ lock' = lock
          ELSE /\ cas' = cas
               /\ cmd' = [cmd EXCEPT ![c].hash = None, ![c].pc = "append"]
               /\ lock' = lock /\ returned' = None
    /\ UNCHANGED << log, nextId, procVars, managed, initVars, streamVars,
                    emitted >>

\* append_event: cas_insert of non-empty content; Err returns at once
AppendCasInsert(c) ==
    /\ Running /\ cmd[c].pc = "cas"
    /\ LET content == Unwrap(cmd[c].request).content
           bytes == IntoBytes(content)
       IN IF content # ""
          THEN \E ok \in StoreOutcomes :
                 IF ok
                 THEN /\ cas' = CasInsert(cas, bytes)
                      /\ cmd' = [cmd EXCEPT ![c].hash = Some(IntegrityOf(bytes)),
                                            ![c].pc = "append"]
                      /\ lock' = lock /\ returned' = None
                 ELSE /\ cas' = cas
                      /\ cmd' = [cmd EXCEPT ![c] = IdleCmd]
                      /\ returned' = Response(cmd[c], Err("Failed to insert content"))
                      /\ lock' = NoOwner
          ELSE /\ cas' = cas
               /\ cmd' = [cmd EXCEPT ![c].hash = None, ![c].pc = "append"]
               /\ lock' = lock /\ returned' = None
    /\ UNCHANGED << log, nextId, procVars, managed, initVars, streamVars,
                    emitted >>

\* an append_event that emits the frame it built before it looks at the
\* result of store.append
AppendFrameEmitsFirst(c) ==
    /\ Running /\ cmd[c].pc = "append"
    /\ nextId' = nextId + 1
    /\ LET request == Unwrap(cmd[c].request)
           frame_id == NewId(nextId)
           frame == Frame(frame_id, request.topic, cmd[c].hash,
                          MetaValue(request.meta))
       IN \E ok \in StoreOutcomes :
            IF ok
            THEN /\ log' = Append(log, frame)
                 /\ cmd' = [cmd EXCEPT ![c].frame_id = frame_id,
                                       ![c].pc = "emit"]
                 /\ emitted' = emitted
                 /\ lock' = lock /\ returned' = None
            ELSE /\ log' = log
                 /\ cmd' = [cmd EXCEPT ![c] = IdleCmd]
                 /\ emitted' = Emit(frame, AppendEvent)
                 /\ returned' = Response(cmd[c], Err("Failed to append frame"))
                 /\ lock' = NoOwner
    /\ UNCHANGED << cas, procVars, managed, initVars, streamVars >>

\* an append that keeps only the newest frame of each topic
AppendFrameKeepsNewest(c) ==
    /\ Running /\ cmd[c].pc = "append"
    /\ nextId' = nextId + 1
    /\ LET request == Unwrap(cmd[c].request)
           frame_id == NewId(nextId)
           frame == Frame(frame_id, request.topic, cmd[c].hash,
                          MetaValue(request.meta))
           otherTopic(f) == f.topic # request.topic
       IN \E ok \in StoreOutcomes :
            IF ok
            THEN /\ log' = Append(SelectSeq(log, otherTopic), frame)
                 /\ cmd' = [cmd EXCEPT ![c].frame_id = frame_id,
                                       ![c].pc = "emit"]
                 /\ lock' = lock /\ returned' = None
            ELSE /\ log' = log
                 /\ cmd' = [cmd EXCEPT ![c] = IdleCmd]
                 /\ returned' = Response(cmd[c], Err("Failed to append frame"))
                 /\ lock' = NoOwner
    /\ UNCHANGED << cas, procVars, managed, initVars, streamVars, emitted >>

\* an append_event whose guard goes out of scope after store.append, so that
\* the emit happens outside the critical section
AppendFrameDropsGuard(c) ==
    /\ Running /\ cmd[c].pc = "append"
    /\ nextId' = nextId + 1
    /\ LET request == Unwrap(cmd[c].request)
           frame_id == NewId(nextId)
           frame == Frame(frame_id, request.topic, cmd[c].hash,
                          MetaValue(request.meta))
       IN \E ok \in StoreOutcomes :
            IF ok
            THEN /\ log' = Append(log, frame)
                 /\ cmd' = [cmd EXCEPT ![c].frame_id = frame_id,
                                       ![c].pc = "emit"]
                 /\ lock' = NoOwner /\ returned' = None
            ELSE /\ log' = log
                 /\ cmd' = [cmd EXCEPT ![c] = IdleCmd]
                 /\ returned' = Response(cmd[c], Err("Failed to append frame"))
                 /\ lock' = NoOwner
    /\ UNCHANGED << cas, procVars, managed, initVars, streamVars, emitted >>

\* append_event: frame_id = scru128::new(), build the Frame, store.append(frame)
AppendFrame(c) ==
    /\ Running /\ cmd[c].pc = "append"
    /\ nextId' = nextId + 1
    /\ LET request == Unwrap(cmd[c].request)
           frame_id == NewId(nextId)
           frame == Frame(frame_id, request.topic, cmd[c].hash,
                          MetaValue(request.meta))
       IN \E ok \in StoreOutcomes :
            IF ok
            THEN /\ log' = Append(log, frame)
                 /\ cmd' = [cmd EXCEPT ![c].frame_id = frame_id,
                                       ![c].pc = "emit"]
                 /\ lock' = lock /\ returned' = None
            ELSE /\ log' = log
                 /\ cmd' = [cmd EXCEPT ![c] = IdleCmd]
                 /\ returned' = Response(cmd[c], Err("Failed to append frame"))
                 /\ lock' = NoOwner
    /\ UNCHANGED << cas, procVars, managed, initVars, streamVars, emitted >>

\* the frame store.append returned to this invocation
AppendedFrame(c) ==
    CHOOSE f \in { log[i] : i \in 1..Len(log) } : f.id = cmd[c].frame_id

\* an append_event that returns Ok(id) without emitting the frame
AppendEmitSilent(c) ==
    /\ Running /\ cmd[c].pc = "emit"
    /\ returned' = Response(cmd[c], OkId(cmd[c].frame_id))
    /\ cmd' = [cmd EXCEPT ![c] = IdleCmd]
    /\ lock' = NoOwner
    /\ UNCHANGED << storeVars, nextId, procVars, managed, initVars, streamVars,
                    emitted >>

\* append_event: app.emit("frame", &appended_frame).map_err(..)?; then
\* Ok(frame_id.to_string()); the guard is dropped on either return
AppendEmit(c) ==
    /\ Running /\ cmd[c].pc = "emit"
    /\ \E ok \in EmitOutcomes :
         IF ok
         THEN /\ emitted' = Emit(AppendedFrame(c), AppendEvent)
              /\ returned' = Response(cmd[c], OkId(cmd[c].frame_id))
         ELSE /\ emitted' = emitted
              /\ returned' = Response(cmd[c], Err("Failed to emit frame"))
    /\ cmd' = [cmd EXCEPT ![c] = IdleCmd]
    /\ lock' = NoOwner
    /\ UNCHANGED << storeVars, nextId, procVars, managed, initVars, streamVars >>

\* a get_cas_content that reports every failure as a read failure
GetCasContentOneKind(store, hash) ==
    LET integrity == ParseIntegrity(hash)
    IN IF ~IsSome(integrity) THEN Err("Failed to read content")
       ELSE LET content == CasRead(store, Unwrap(integrity))
            IN IF ~IsSome(content) THEN Err("Failed to read content")
               ELSE LET text == FromUtf8(Unwrap(content))
                    IN IF ~IsSome(text) THEN Err("Failed to read content")
                       ELSE OkText(Unwrap(text))

\* the body of get_cas_content: parse, cas_read, from_utf8
GetCasContent(store, hash) ==
    LET integrity == ParseIntegrity(hash)
    IN IF ~IsSome(integrity) THEN Err("Invalid hash format")
       ELSE LET content == CasRead(store, Unwrap(integrity))
            IN IF ~IsSome(content) THEN Err("Failed to read content")
               ELSE LET text == FromUtf8(Unwrap(content))
                    IN IF ~IsSome(text) THEN Err("Invalid UTF-8 content")
                       ELSE OkText(Unwrap(text))

\* get_cas_content under the guard; the guard is dropped on return
GetRead(c) ==
    /\ Running /\ cmd[c].pc = "read"
    /\ returned' = Response(cmd[c],
                            GetCasContent(cas, Unwrap(cmd[c].hash_arg)))
    /\ cmd' = [cmd EXCEPT ![c] = IdleCmd]
    /\ lock' = NoOwner
    /\ UNCHANGED << storeVars, nextId, procVars, managed, initVars, streamVars,
                    emitted >>

(* ------------------------------- process ------------------------------- *)
\* the process ends (window closed, crash, exit(1)) and run() starts again on
\* the same store directory: tasks, guard and managed state are gone
Restart ==
    /\ restarts < MaxRestarts
    /\ restarts' = restarts + 1
    /\ proc' = "running"
    /\ runBase' = Len(log)
    /\ managed' = FALSE
    /\ lock' = NoOwner
    /\ initPc' = "lock"
    /\ has_yak' = FALSE
    /\ appended_yak' = None
    /\ streamPc' = "unspawned"
    /\ rx' = <<>>
    /\ count' = 0
    /\ emitted' = <<>>
    /\ cmd' = [c \in Cmds |-> IdleCmd]
    /\ returned' = None
    /\ UNCHANGED << storeVars, nextId, calls, sinkUp >>

Next ==
    \/ InitLock
    \/ InitScan
    \/ InitAppend
    \/ InitEmit
    \/ InitDrop
    \/ InitSpawn
    \/ RunManage
    \/ RunExit
    \/ StreamWake
    \/ StreamLock
    \/ StreamRead
    \/ StreamEmit
    \/ StreamFinish
    \/ \E c \in Cmds : \E request \in Requests : AppendInvoke(c, request)
    \/ \E c \in Cmds : \E hash \in HashStrings : GetInvoke(c, hash)
    \/ \E c \in Cmds : CmdLock(c)
    \/ \E c \in Cmds : AppendCasInsert(c)
    \/ \E c \in Cmds : AppendFrame(c)
    \/ \E c \in Cmds : AppendEmit(c)
    \/ \E c \in Cmds : GetRead(c)
    \/ Restart

Spec == Init /\ [][Next]_vars

\* a process run whose subscriber sink accepts every emit
LiveInit == Init /\ sinkUp

\* the runtime keeps polling every spawned task and every accepted command, and
\* the tokio Mutex hands the guard to its waiters in FIFO order; of this only
\* the weakest consequence is assumed: a step that stays possible is taken, and
\* a waiter for which the guard stays free acquires it
Fairness ==
    /\ WF_vars(InitLock) /\ WF_vars(InitScan) /\ WF_vars(InitAppend)
    /\ WF_vars(InitEmit) /\ WF_vars(InitDrop) /\ WF_vars(InitSpawn)
    /\ WF_vars(RunManage) /\ WF_vars(RunExit)
    /\ WF_vars(StreamWake) /\ WF_vars(StreamLock) /\ WF_vars(StreamRead)
    /\ WF_vars(StreamEmit) /\ WF_vars(StreamFinish)
    /\ \A c \in Cmds :
         /\ WF_vars(CmdLock(c))
         /\ WF_vars(AppendCasInsert(c)) /\ WF_vars(AppendFrame(c))
         /\ WF_vars(AppendEmit(c)) /\ WF_vars(GetRead(c))

LiveSpec == LiveInit /\ [][Next]_vars /\ Fairness

\* the steps of one process lifetime: every step but the start of a new process
RunNext ==
    \/ InitLock
    \/ InitScan
    \/ InitAppend
    \/ InitEmit
    \/ InitDrop
    \/ InitSpawn
    \/ RunManage
    \/ RunExit
    \/ StreamWake
    \/ StreamLock
    \/ StreamRead
    \/ StreamEmit
    \/ StreamFinish
    \/ \E c \in Cmds : \E request \in Requests : AppendInvoke(c, request)
    \/ \E c \in Cmds : \E hash \in HashStrings : GetInvoke(c, hash)
    \/ \E c \in Cmds : CmdLock(c)
    \/ \E c \in Cmds : AppendCasInsert(c)
    \/ \E c \in Cmds : AppendFrame(c)
    \/ \E c \in Cmds : AppendEmit(c)
    \/ \E c \in Cmds : GetRead(c)

\* one process lifetime under fair scheduling, with a sink that may refuse
\* emits
RunSpec == Init /\ [][RunNext]_vars /\ Fairness

(* ---------------- get_cas_content against an existing CAS -------------- *)
\* bytes that are not valid UTF-8 (a binary entry of the store's CAS)
RawBytes == [enc |-> "raw", text |-> "ff fe"]

\* hash strings a caller may pass: the ones above and the hash of the binary entry
CasHashStrings ==
    HashStrings \cup { IntegrityToString(IntegrityOf(RawBytes)) }

\* contents of the CAS of a store directory the process is started on: the
\* CAS holds bytes, which any client of the store directory inserts
CasStores ==
    { <<>>,
      CasInsert(<<>>, IntoBytes("hello")),
      CasInsert(<<>>, RawBytes),
      CasInsert(CasInsert(<<>>, IntoBytes("hello")), RawBytes) }

\* the genesis frame of the store
GenesisFrame == Frame(NewId(1), SentinelTopic, None, None)

\* a process whose bootstrap and replay have finished, on a store whose CAS
\* is one of CasStores
CasInit ==
    /\ log = << GenesisFrame >>
    /\ cas \in CasStores
    /\ nextId = 2
    /\ proc = "running"
    /\ restarts = 0
    /\ runBase = 0
    /\ calls = 0
    /\ sinkUp = TRUE
    /\ managed = TRUE
    /\ lock = NoOwner
    /\ initPc = "done"
    /\ has_yak = FALSE
    /\ appended_yak = Some(GenesisFrame)
    /\ streamPc = "done"
    /\ rx = << GenesisFrame >>
    /\ count = 1
    /\ emitted = << [frame |-> GenesisFrame, by |-> InitTask],
                    [frame |-> GenesisFrame, by |-> StreamTask] >>
    /\ cmd = [c \in Cmds |-> IdleCmd]
    /\ returned = None

\* the front end calling get_cas_content, concurrently, with any hash string
CasNext ==
    \/ \E c \in Cmds : \E hash \in CasHashStrings : GetInvoke(c, hash)
    \/ \E c \in Cmds : CmdLock(c)
    \/ \E c \in Cmds : GetRead(c)

CasSpec == CasInit /\ [][CasNext]_vars


(* ============================== properties ============================= *)
Frames == { log[i] : i \in 1..Len(log) }

\* initialize_store has released the guard after its scan (and append)
InitCompleted == initPc \in {"spawn", "returned", "done"}

\* the number of frames of the log with the sentinel topic
SentinelCount(frames) ==
    Cardinality({ i \in 1..Len(frames) : frames[i].topic = SentinelTopic })

\* a step of this process run (not the start of the next one)
SameRun == restarts' = restarts

\* C1: every frame of the log whose hash is set references an entry that the
\* CAS already holds, and the genesis frame the bootstrap appends has no hash.
C1_HashedFramesHaveContent ==
    /\ \A i \in 1..Len(log) :
         IsSome(log[i].hash) => Unwrap(log[i].hash) \in DOMAIN cas
    /\ IsSome(appended_yak) => Unwrap(appended_yak).hash = None

\* a frame with a hash is in the log
C1_Witness ==
    \E i \in 1..Len(log) :
      IsSome(log[i].hash) /\ Unwrap(log[i].hash) \in DOMAIN cas

\* C2: from a fresh store, once initialization has completed the log holds a
\* sentinel frame, exactly one as long as no command was ever invoked, however
\* often the process restarted; the bootstrap appends only when the log holds
\* no sentinel, and then leaves exactly one.
C2_GenesisOnce ==
    /\ [](InitCompleted => SentinelCount(log) >= 1)
    /\ [](InitCompleted /\ calls = 0 => SentinelCount(log) = 1)
    /\ [][ SameRun /\ ~InitCompleted /\ log' # log
             => SentinelCount(log) = 0 /\ SentinelCount(log') = 1 ]_vars
    /\ [][ SameRun /\ ~InitCompleted /\ SentinelCount(log) >= 1
             => log' = log ]_vars

\* a second initialization found the sentinel of the first and appended nothing
C2_Witness ==
    /\ restarts >= 1 /\ InitCompleted /\ has_yak
    /\ calls = 0 /\ SentinelCount(log) = 1

\* C3: when append_event returns Ok(id), the log holds exactly one frame with
\* that id; it has the request's topic, its hash is None iff the content was
\* empty, and otherwise get_cas_content of the hash returns the content.
C3_AppendResult ==
    \A r \in { returned[i] : i \in 1..Len(returned) } :
      r.kind = "append_event" /\ r.result.ok =>
        LET request == Unwrap(r.request)
            found == { f \in Frames : f.id = r.result.id }
        IN /\ Cardinality(found) = 1
           /\ \A f \in found :
                /\ f.topic = request.topic
                /\ (f.hash = None) <=> (request.content = "")
                /\ request.content # "" =>
                     GetCasContent(cas, IntegrityToString(Unwrap(f.hash)))
                       = OkText(request.content)

\* append_event returned Ok for a request with content
C3_Witness ==
    /\ IsSome(returned)
    /\ Unwrap(returned).kind = "append_event"
    /\ Unwrap(returned).result.ok
    /\ Unwrap(Unwrap(returned).request).content = "bye"

\* the frames the replay task has forwarded so far, in order
ReplayForwarded ==
    LET byReplay(e) == e.by = StreamTask
        es == SelectSeq(emitted, byReplay)
    IN [i \in 1..Len(es) |-> es[i].frame]

IsPrefix(a, b) == Len(a) <= Len(b) /\ a = SubSeq(b, 1, Len(a))

\* C4: while replay holds the guard its snapshot is the log, the log does not
\* change, and what it has forwarded is the first count frames of the snapshot
\* in log order; when it finishes, it has forwarded exactly the snapshot.
C4_ReplayIsSnapshot ==
    /\ [](streamPc = "recv" =>
            /\ rx = log
            /\ count <= Len(rx)
            /\ ReplayForwarded = SubSeq(rx, 1, count))
    /\ [](streamPc = "done" => ReplayForwarded = rx /\ IsPrefix(rx, log))
    /\ [][ (streamPc \in {"read", "recv"}) => log' = log ]_vars

\* replay finished after forwarding a snapshot of several frames, and the log
\* has grown since
C4_Witness ==
    streamPc = "done" /\ Len(rx) >= 2 /\ Len(log) > Len(rx)

\* C5: no frame id is emitted to the sink twice in one process run.
C5_NoDuplicateEmit ==
    \A i, j \in 1..Len(emitted) :
      i < j => emitted[i].frame.id # emitted[j].frame.id


EmittedId(id) == \E i \in 1..Len(emitted) : emitted[i].frame.id = id

\* every frame of the log has been emitted to the sink in this process run
AllEmitted == \A i \in 1..Len(log) : EmittedId(log[i].id)

\* C6: with a sink that accepts every emit and fair scheduling, no frame stays
\* undelivered: whatever frames are in the log (history, genesis, frames
\* appended before, during the wait for, or after replay), a state in which all
\* of them have been emitted in the running process is reached again and again,
\* unless the bootstrap failed and the process exited.
C6_NoFrameLost == []<>(proc = "exited" \/ AllEmitted)

\* in a second run the replay has forwarded the history and a command's frame,
\* appended after the replay, was emitted live
C6_Witness ==
    /\ restarts >= 1 /\ streamPc = "done" /\ Len(rx) >= 1
    /\ \E i \in 1..Len(emitted) :
         /\ emitted[i].by = AppendEvent
         /\ \A j \in 1..Len(rx) : rx[j].id # emitted[i].frame.id
    /\ AllEmitted

InitInGuard == initPc \in {"scan", "append", "emit", "drop"}
StreamInGuard == streamPc \in {"read", "recv"}
CmdInGuard(c) == cmd[c].pc \in {"cas", "append", "emit", "read"}

\* the number of tasks inside their store critical section
InGuardCount ==
    (IF InitInGuard THEN 1 ELSE 0) + (IF StreamInGuard THEN 1 ELSE 0)
      + Cardinality({ c \in Cmds : CmdInGuard(c) })

\* C7: at most one of the bootstrap, the replay and the commands is inside its
\* store critical section, and it is the holder of the guard; while the replay
\* is inside, no step changes the log or the CAS.
C7_OneInGuard ==
    /\ [](/\ InGuardCount <= 1
          /\ InitInGuard => lock = InitTask
          /\ StreamInGuard => lock = StreamTask
          /\ \A c \in Cmds : CmdInGuard(c) => lock = CmdTask(c))
    /\ [][ StreamInGuard => log' = log /\ cas' = cas ]_vars

\* a command invoked during the replay waits for the guard while the replay is
\* between two forwarded frames
C7_Witness ==
    /\ streamPc = "recv" /\ count >= 1 /\ count < Len(rx)
    /\ \E c \in Cmds : cmd[c].pc = "lock" /\ cmd[c].kind = "append_event"

\* C8: an invocation is accepted (and later takes the guard) only once the
\* bootstrap has completed and run has managed the store; before that every
\* invocation is rejected without touching the store.
C8_NoCommandBeforeBootstrap ==
    /\ \A c \in Cmds :
         cmd[c].pc # "idle" =>
           managed /\ initPc = "done" /\ SentinelCount(log) >= 1
    /\ IsSome(returned) /\ ~managed =>
         Unwrap(returned).result = Err("state not managed")

\* an invocation made while the bootstrap holds the guard was rejected
C8_Witness ==
    /\ IsSome(returned) /\ ~managed /\ InitInGuard
    /\ Unwrap(returned).kind = "append_event"

\* C9: the frames appended in this process run have strictly increasing ids,
\* in append order.
C9_IdsIncrease ==
    \A i, j \in (runBase + 1)..Len(log) : i < j => log[i].id < log[j].id

\* two commands appended in a run that started on an existing log
C9_Witness ==
    /\ restarts >= 1 /\ runBase >= 1 /\ Len(log) >= runBase + 2

\* C10: when append_event has appended its frame, its return is Ok(frame_id)
\* whether or not the emit succeeded, and the frame is in the log.
C10_EmitFailureReturnsId ==
    [][ \A c \in Cmds :
          SameRun /\ cmd[c].pc = "emit" /\ cmd'[c].pc = "idle" =>
            /\ returned' = Response(cmd[c], OkId(cmd[c].frame_id))
            /\ \E i \in 1..Len(log') : log'[i].id = cmd[c].frame_id ]_vars

\* C11: a failed append of the genesis frame is fatal to the start: the
\* bootstrap goes past its append only with the frame in the log; after the
\* failure the guard is free, the store is not managed, the replay task is not
\* spawned, nothing was emitted, no command runs, and the only step left to
\* the process is its exit; a process exits for no other reason.
C11_GenesisAppendFailureFatal ==
    /\ initPc \in {"emit", "drop", "spawn", "returned", "done"} /\ ~has_yak =>
         IsSome(appended_yak) /\ Unwrap(appended_yak) \in Frames
    /\ initPc = "failed" =>
         /\ ~has_yak /\ appended_yak = None
         /\ ~managed /\ streamPc = "unspawned" /\ emitted = <<>>
         /\ lock = NoOwner
         /\ \A c \in Cmds : cmd[c].pc = "idle"
         /\ Running => ENABLED RunExit
    /\ proc = "exited" => initPc = "failed"

\* the genesis append failed and the process has exited
C11_Witness ==
    /\ proc = "exited" /\ initPc = "failed" /\ SentinelCount(log) = 0

\* C13: get_cas_content answers by the first step that fails: a hash string
\* that does not parse gives the parse error (never the read error), a parsed
\* hash with no entry in the CAS gives the read error, an entry that is not
\* valid UTF-8 gives the decode error, and otherwise the entry's text is
\* returned; the three errors differ from one another.
C13_ErrorKinds ==
    IsSome(returned) /\ Unwrap(returned).kind = "get_cas_content" /\ managed =>
      LET r == Unwrap(returned)
          h == Unwrap(r.hash_arg)
          wellFormed == Len(h) = 2 /\ h[1] \in HashAlgos
          key == [algo |-> h[1], digest |-> h[2]]
      IN /\ ~wellFormed =>
              /\ r.result = Err("Invalid hash format")
              /\ r.result # Err("Failed to read content")
         /\ wellFormed /\ key \notin DOMAIN cas =>
              r.result = Err("Failed to read content")
         /\ wellFormed /\ key \in DOMAIN cas /\ cas[key].enc # "utf8" =>
              r.result = Err("Invalid UTF-8 content")
         /\ wellFormed /\ key \in DOMAIN cas /\ cas[key].enc = "utf8" =>
              r.result = OkText(cas[key].text)
         /\ Cardinality({ Err("Invalid hash format"),
                          Err("Failed to read content"),
                          Err("Invalid UTF-8 content") }) = 3

\* get_cas_content of the hash of a binary entry returned the decode error
C13_Witness ==
    /\ IsSome(returned)
    /\ Unwrap(returned).kind = "get_cas_content"
    /\ Unwrap(returned).result = Err("Invalid UTF-8 content")
    /\ ParseIntegrity(Unwrap(Unwrap(returned).hash_arg)) # None

\* C14: the replay goes on only while every emit succeeded; when the emit of
\* the frame it counted as number count fails it ends as failed, with the
\* guard released: then, and from then on, what it forwarded is exactly the
\* count - 1 frames before that one, in log order, and its snapshot is still
\* a prefix of the log.
C14_ReplayFailFast ==
    /\ streamPc \in {"recv", "done"} => Len(ReplayForwarded) = count
    /\ streamPc = "failed" =>
         /\ count \in 1..Len(rx)
         /\ ReplayForwarded = SubSeq(rx, 1, count - 1)
         /\ IsPrefix(rx, log)
         /\ lock # StreamTask

\* the replay failed on a frame in the middle of its snapshot, after it had
\* forwarded at least one frame
C14_Witness ==
    /\ streamPc = "failed" /\ count >= 2 /\ count < Len(rx)
    /\ Len(ReplayForwarded) = count - 1

\* initialize_store appended the yak frame in this run and is past its emit,
\* and the sink did not get the frame from it
GenesisEmitFailed ==
    /\ IsSome(appended_yak) /\ initPc # "emit"
    /\ \A i \in 1..Len(emitted) : emitted[i].by # InitTask

\* C15: when the emit of the yak frame that initialize_store appended failed,
\* the initialization goes on to success: the process keeps running, the frame
\* stays in the log, the guard is dropped, the replay task is spawned and the
\* store is managed, each of these steps being enabled in its turn.
C15_GenesisEmitFailureNotFatal ==
    GenesisEmitFailed =>
      /\ Running
      /\ initPc \in {"drop", "spawn", "returned", "done"}
      /\ Unwrap(appended_yak) \in Frames
      /\ initPc = "drop" => ENABLED InitDrop
      /\ initPc = "spawn" => lock = NoOwner /\ ENABLED InitSpawn
      /\ initPc \in {"returned", "done"} =>
           streamPc # "unspawned" /\ lock # InitTask
      /\ initPc = "returned" => ENABLED RunManage
      /\ initPc = "done" => managed

\* the emit of the yak frame failed, and the store is managed and the replay
\* task spawned
C15_Witness ==
    /\ GenesisEmitFailed /\ initPc = "done" /\ managed
    /\ streamPc # "unspawned" /\ Unwrap(appended_yak) \in Frames

\* C16: a step in which append_event ends at its cas_insert or at its
\* store.append is a failure of that call: it delivers Err with the message of
\* the failed call to the caller of that request, and it leaves the log and
\* what the sink received unchanged.
C16_FailedAppendNoEffect ==
    [][ \A c \in Cmds :
          SameRun /\ cmd[c].pc \in {"cas", "append"} /\ cmd'[c].pc = "idle" =>
            /\ log' = log
            /\ emitted' = emitted
            /\ IsSome(returned')
            /\ Unwrap(returned').kind = "append_event"
            /\ Unwrap(returned').request = cmd[c].request
            /\ Unwrap(returned').result =
                 IF cmd[c].pc = "cas" THEN Err("Failed to insert content")
                                      ELSE Err("Failed to append frame") ]_vars

\* an append_event whose content was inserted into the CAS failed at
\* store.append: the log has no frame with that hash and nothing was emitted
\* for it
C16_Witness ==
    /\ IsSome(returned)
    /\ Unwrap(returned).kind = "append_event"
    /\ Unwrap(returned).result = Err("Failed to append frame")
    /\ Unwrap(Unwrap(returned).request).content = "hello"
    /\ IntegrityOf(IntoBytes("hello")) \in DOMAIN cas
    /\ \A i \in 1..Len(log) : log[i].hash = None
    /\ \A i \in 1..Len(emitted) : emitted[i].frame.hash = None

\* no command is waiting for the guard or inside its critical section
NoCommandPending == \A c \in Cmds : cmd[c].pc = "idle"

\* C17: the guard is never left held by a task that is outside its critical
\* section (every return of the bootstrap, the replay and the commands, the
\* error returns included, drops it), and under fair scheduling the commands
\* that wait for it get it and complete: a state with no command pending is
\* reached again and again.
C17_GuardReleased ==
    /\ [](/\ lock = InitTask => InitInGuard
          /\ lock = StreamTask => StreamInGuard
          /\ \A c \in Cmds : lock = CmdTask(c) => CmdInGuard(c)
          /\ lock \in {NoOwner, InitTask, StreamTask} \cup { CmdTask(c) : c \in Cmds })
    /\ []<>NoCommandPending

\* a command returned an error while another command waits for the guard,
\* which is free
C17_Witness ==
    /\ IsSome(returned) /\ ~Unwrap(returned).result.ok
    /\ Unwrap(returned).result # Err("state not managed")
    /\ lock = NoOwner
    /\ \E c \in Cmds : cmd[c].pc = "lock"

\* C18: every step, the start of a new process included, leaves the log as it
\* is or adds one frame at its end; a step that adds a frame is the append of
\* initialize_store or of an append_event; the steps of the replay and of
\* get_cas_content change neither the log nor the CAS.
C18_AppendOnly ==
    [][ /\ \/ log' = log
           \/ /\ Len(log') = Len(log) + 1
              /\ SubSeq(log', 1, Len(log)) = log
        /\ log' # log =>
             \/ initPc = "append" /\ initPc' = "emit"
             \/ \E c \in Cmds :
                  /\ cmd[c].kind = "append_event"
                  /\ cmd[c].pc = "append" /\ cmd'[c].pc = "emit"
        /\ SameRun /\ (streamPc' # streamPc \/ count' # count \/ rx' # rx) =>
             log' = log /\ cas' = cas
        /\ (\E c \in Cmds :
              cmd[c].kind = "get_cas_content" /\ cmd'[c] # cmd[c]) =>
             log' = log /\ cas' = cas
        /\ (IsSome(returned') /\ Unwrap(returned').kind = "get_cas_content") =>
             log' = log /\ cas' = cas ]_vars

\* a second process runs on the log the first one left: the frames of the
\* first run are all there, the replay has read them and get_cas_content has
\* returned an entry
C18_Witness ==
    /\ restarts >= 1 /\ runBase >= 2 /\ Len(log) >= runBase
    /\ streamPc = "done" /\ Len(rx) >= runBase
    /\ IsSome(returned) /\ Unwrap(returned).kind = "get_cas_content"
    /\ Unwrap(returned).result.ok

\* the replay task has taken the guard for its snapshot, or is past it
ReplayStarted == streamPc \in {"read", "recv", "done", "failed"}

\* the replay task has ended, with Ok or with the error of a failed emit
ReplayEnded == streamPc \in {"done", "failed"}

\* C19: in one process lifetime the replay task is spawned only by a bootstrap
\* that succeeded, takes the guard and its snapshot only after the bootstrap
\* has dropped the guard, does so once (it is never spawned again, its one
\* snapshot is never replaced, and once ended it stays ended), and under fair
\* scheduling a bootstrap that returned Ok (a state the process then stays
\* in) is followed by the replay running to its end.
C19_ReplayOnceAfterBootstrap ==
    /\ [](/\ streamPc # "unspawned" => initPc \in {"returned", "done"}
          /\ ReplayStarted => InitCompleted /\ lock # InitTask)
    /\ [][ /\ streamPc' = "sleep" => streamPc \in {"unspawned", "sleep"}
           /\ streamPc' = "read" => streamPc \in {"lock", "read"}
           /\ rx' # rx => streamPc = "read" /\ rx = <<>>
           /\ ReplayEnded => streamPc' = streamPc ]_vars
    /\ []<>(initPc \in {"returned", "done"} => ReplayEnded)

\* the replay ran to its end over a snapshot that holds the genesis frame and
\* the frame of a command, in a process whose store is managed
C19_Witness ==
    /\ streamPc = "done" /\ managed /\ Len(rx) >= 2
    /\ ReplayForwarded = rx

\* the position in the log of the frame with this id
LogPos(id) == CHOOSE i \in 1..Len(log) : log[i].id = id

\* C20: the frames that append_event invocations emitted live are frames of
\* the log and reached the sink in the order of their positions in the log,
\* and the frames the replay forwarded reached the sink one after the other,
\* with no emit of another task between two of them.
C20_LiveOrderIsAppendOrder ==
    /\ \A i \in 1..Len(emitted) :
         emitted[i].by = AppendEvent => emitted[i].frame \in Frames
    /\ \A i, j \in 1..Len(emitted) :
         i < j /\ emitted[i].by = AppendEvent /\ emitted[j].by = AppendEvent =>
           LogPos(emitted[i].frame.id) < LogPos(emitted[j].frame.id)
    /\ \A i, j, k \in 1..Len(emitted) :
         i < j /\ j < k /\ emitted[i].by = StreamTask /\ emitted[k].by = StreamTask
           => emitted[j].by = StreamTask

\* one command emitted its frame before the replay, the replay forwarded
\* several frames, and a second command emitted its frame after it
C20_Witness ==
    \E i, j, k \in 1..Len(emitted) :
      /\ i < j /\ j + 1 < k
      /\ emitted[i].by = AppendEvent /\ emitted[k].by = AppendEvent
      /\ emitted[j].by = StreamTask /\ emitted[j + 1].by = StreamTask
      /\ LogPos(emitted[i].frame.id) < LogPos(emitted[k].frame.id)

====
